---- MODULE Spec2Model ----
(***************************************************************************)
(* Model of the VCF reading loop of src/main.py (function main, lines      *)
(* 231-447) together with its helpers reset_field_counts and add_contact.  *)
(*                                                                         *)
(* Text handled character by character (input lines, field values, raw    *)
(* keys, tags) is a sequence of one-character strings, so that Python's    *)
(* split / replace / slicing can be computed as the interpreter computes   *)
(* them.  Canonical field names, which the program only compares and       *)
(* concatenates with "_<count>", are TLA+ strings.                         *)
(***************************************************************************)
EXTENDS Integers, Sequences, FiniteSets, TLC

(***************************************************************************)
(* Python string primitives                                                *)
(***************************************************************************)

\* smallest element of a non-empty set of integers
SetMin(S) == CHOOSE x \in S : \A y \in S : x <= y

\* s[-1] of a list the program knows to be non-empty
Last(s) == s[Len(s)]

\* Python's normalisation of a slice bound i against length n
SliceBound(i, n) ==
    IF i < 0 THEN (IF i + n < 0 THEN 0 ELSE i + n)
             ELSE (IF i > n THEN n ELSE i)

\* s[i:j]
Slice(s, i, j) ==
    LET a == SliceBound(i, Len(s))
        b == SliceBound(j, Len(s))
    IN  IF a >= b THEN << >> ELSE SubSeq(s, a + 1, b)

\* s[i:]
SliceFrom(s, i) == Slice(s, i, Len(s))

\* s[:j]
SliceTo(s, j) == Slice(s, 0, j)

\* s.startswith(p)
StartsWith(s, p) == Len(p) <= Len(s) /\ SubSeq(s, 1, Len(p)) = p

\* 1-based position of the first occurrence of p in s, 0 if there is none
\* (s.find(p) + 1)
Find(s, p) ==
    LET C == {i \in 1..(Len(s) - Len(p) + 1) : SubSeq(s, i, i + Len(p) - 1) = p}
    IN  IF C = {} THEN 0 ELSE SetMin(C)

\* p in s
Contains(s, p) == Find(s, p) # 0

\* s.split(sep), sep non-empty
RECURSIVE Split(_, _)
Split(s, sep) ==
    LET i == Find(s, sep)
    IN  IF i = 0 THEN <<s>>
        ELSE <<SubSeq(s, 1, i - 1)>> \o Split(SubSeq(s, i + Len(sep), Len(s)), sep)

\* s.replace(old, new), old non-empty
RECURSIVE Replace(_, _, _)
Replace(s, old, new) ==
    LET i == Find(s, old)
    IN  IF i = 0 THEN s
        ELSE SubSeq(s, 1, i - 1) \o new
             \o Replace(SubSeq(s, i + Len(old), Len(s)), old, new)

\* re.split(':|;', line)[0]
ReSplitFirst(line) ==
    LET C == {i \in 1..Len(line) : line[i] \in {":", ";"}}
    IN  IF C = {} THEN line ELSE SubSeq(line, 1, SetMin(C) - 1)

\* x in lst
InList(x, lst) == \E i \in 1..Len(lst) : lst[i] = x

(***************************************************************************)
(* Literals of the source                                                  *)
(***************************************************************************)

BEGIN_SYMBOL == <<"N", ":">>
END_SYMBOL == <<"E", "N", "D", ":">>

ADR == <<"A", "D", "R">>
NOTE == <<"N", "O", "T", "E">>
PHOTO == <<"P", "H", "O", "T", "O">>
BDAY == <<"B", "D", "A", "Y">>
CATEGORIES == <<"C", "A", "T", "E", "G", "O", "R", "I", "E", "S">>
TEL == <<"T", "E", "L">>

\* the two non-printing characters the note decoding removes; each is one
\* character of the text
NBSP == "<U+00A0>"
ZWSP == "<U+200B>"

X_CUSTOM == <<"X", "-", "C", "U", "S", "T", "O", "M">>
X_SOCIALPROFILE ==
    <<"X", "-", "S", "O", "C", "I", "A", "L", "P", "R", "O", "F", "I", "L", "E">>
CUSTOM_SEPARATOR == <<"-", "=", "+", "=", "-">>
TYPE_PARAM == <<"T", "Y", "P", "E", "=">>
NATIONALITY == <<"N", "a", "t", "i", "o", "n", "a", "l", "i", "t", "y">>
TWITTER == <<"t", "w", "i", "t", "t", "e", "r">>

\* fold thresholds of the note decoding
NotePrimaryFold == 72
NoteContinuationFold == 75

(***************************************************************************)
(* Field registry: the three tables loaded from json/*.json.  The entries  *)
(* are the raw keys the source names literally (ADR, NOTE, PHOTO, BDAY,    *)
(* CATEGORIES) with the canonical names the source uses for them, one      *)
(* further standard key, one custom key and one social-profile key.        *)
(***************************************************************************)

standard_field_dict ==
    (ADR :> "Address") @@ (NOTE :> "Note") @@ (PHOTO :> "Picture")
    @@ (BDAY :> "Birthday") @@ (CATEGORIES :> "Tags") @@ (TEL :> "Phone")

standard_field_list == <<ADR, NOTE, PHOTO, BDAY, CATEGORIES, TEL>>

custom_field_dict == (NATIONALITY :> "Nationality")

custom_field_list == <<NATIONALITY>>

social_profile_field_dict == (TWITTER :> "Twitter")

social_profile_field_list == <<TWITTER>>

(***************************************************************************)
(* Program state: the locals of main() that live across loop iterations,   *)
(* the arguments, the part of the file read so far, and the position of    *)
(* the program.                                                            *)
(***************************************************************************)

VARIABLES
    contacts_dict,      \* the store: identifier -> contact
    contact_id,         \* next identifier
    listening_to_data,  \* a record is open
    contact_dict,       \* the record in progress: canonical name -> value
    alias,              \* identifier of the store entry that is the very object
                        \* contact_dict, -1 if there is none
    key, key_previous,  \* raw key of the current / last processed field
    value, value_previous, \* canonical name of the current / last processed field
    last_symbol,        \* last character of the last note line
    standard_count, custom_count, social_count, \* the 'count' entries of the tables
    tag_list, logic_op, \* args.tag_list, args.logic_op
    vcf,                \* the lines of the file read so far
    decimal,            \* argument of decimalToExcelBase26, 0 while parsing
    excel_base_26,      \* the value it returns
    pc                  \* "reading", "done" (end of file) or "crashed" (exception);
                        \* "calling", "returned" for decimalToExcelBase26

vars == <<contacts_dict, contact_id, listening_to_data, contact_dict, alias, key,
          key_previous, value, value_previous, last_symbol, standard_count,
          custom_count, social_count, tag_list, logic_op, vcf, decimal,
          excel_base_26, pc>>

\* a Python dict with no entry
EmptyDict == [x \in {} |-> << >>]

\* d[k] = v
DictSet(d, k, v) == [x \in DOMAIN d \cup {k} |-> IF x = k THEN v ELSE d[x]]

\* d without k
DictDel(d, k) == [x \in DOMAIN d \ {k} |-> d[x]]

\* the locals as one record, threaded through the blocks of the loop body;
\* err: an exception was raised; cont: a 'continue' was executed
Locals ==
    [contacts_dict |-> contacts_dict, contact_id |-> contact_id,
     listening_to_data |-> listening_to_data, contact_dict |-> contact_dict,
     alias |-> alias, key |-> key, key_previous |-> key_previous, value |-> value,
     value_previous |-> value_previous, last_symbol |-> last_symbol,
     standard_count |-> standard_count, custom_count |-> custom_count,
     social_count |-> social_count, err |-> FALSE, cont |-> FALSE]

\* reset_field_counts that resets the first table only
reset_field_counts_FirstTable(s) ==
    [s EXCEPT !.standard_count = [k \in DOMAIN standard_field_dict |-> 0]]

\* reset_field_counts(field_dict_list)
reset_field_counts(s) ==
    [s EXCEPT !.standard_count = [k \in DOMAIN standard_field_dict |-> 0],
              !.custom_count = [k \in DOMAIN custom_field_dict |-> 0],
              !.social_count = [k \in DOMAIN social_profile_field_dict |-> 0]]

\* add_contact that does not advance the identifier
add_contact_SameId(s) ==
    [s EXCEPT !.contacts_dict = DictSet(s.contacts_dict, s.contact_id, s.contact_dict),
              !.alias = s.contact_id,
              !.listening_to_data = FALSE]

\* add_contact(contacts_dict, contact_dict, contact_id); the store entry is
\* the dict object itself, not a copy of it
add_contact(s) ==
    [s EXCEPT !.contacts_dict = DictSet(s.contacts_dict, s.contact_id, s.contact_dict),
              !.alias = s.contact_id,
              !.contact_id = s.contact_id + 1,
              !.listening_to_data = FALSE]

\* BeginBlock that keeps the last processed key
BeginBlock_KeepPreviousKey(s, line) ==
    IF StartsWith(line, BEGIN_SYMBOL)
    THEN reset_field_counts(
             [s EXCEPT !.listening_to_data = TRUE,
                       !.contact_dict = EmptyDict,
                       !.alias = -1,
                       !.key = BEGIN_SYMBOL])
    ELSE s

\* BeginBlock that keeps the record in progress
BeginBlock_KeepRecord(s, line) ==
    IF StartsWith(line, BEGIN_SYMBOL)
    THEN reset_field_counts(
             [s EXCEPT !.listening_to_data = TRUE,
                       !.key = BEGIN_SYMBOL,
                       !.key_previous = BEGIN_SYMBOL])
    ELSE s

\* if line.startswith(BEGIN_SYMBOL): open a new record; contact_dict = {} binds
\* the name to a new object
BeginBlock(s, line) ==
    IF StartsWith(line, BEGIN_SYMBOL)
    THEN reset_field_counts(
             [s EXCEPT !.listening_to_data = TRUE,
                       !.contact_dict = EmptyDict,
                       !.alias = -1,
                       !.key = BEGIN_SYMBOL,
                       !.key_previous = BEGIN_SYMBOL])
    ELSE s

\* AllTags with the quantifier of the OR branch
AllTagsAsAny(contact_tags, tags) ==
    \E i \in 1..Len(tags) : InList(tags[i], contact_tags)

\* all(tag in contact_tags for tag in args.tag_list)
AllTags(contact_tags, tags) ==
    \A i \in 1..Len(tags) : InList(tags[i], contact_tags)

\* any(tag in contact_tags for tag in args.tag_list)
AnyTag(contact_tags, tags) ==
    \E i \in 1..Len(tags) : InList(tags[i], contact_tags)

\* lines 295-310: the record is stored or dropped according to the operator;
\* with any other operator the block falls through
ApplyFilter(s, contact_tags, tags, op) ==
    IF op = "&"
    THEN IF ~AllTags(contact_tags, tags)
         THEN [s EXCEPT !.listening_to_data = FALSE, !.cont = TRUE]
         ELSE [add_contact(s) EXCEPT !.cont = TRUE]
    ELSE IF op = "|"
    THEN IF ~AnyTag(contact_tags, tags)
         THEN [s EXCEPT !.listening_to_data = FALSE, !.cont = TRUE]
         ELSE [add_contact(s) EXCEPT !.cont = TRUE]
    ELSE s

\* the filtering branch of the record-end block, taken when the record has a
\* "Tags" entry: the entry named by the CATEGORIES key is split on ","
FilterByTags(s, tag_value, tags, op) ==
    IF tag_value \notin DOMAIN s.contact_dict
    THEN [s EXCEPT !.err = TRUE]
    ELSE ApplyFilter(s, Split(s.contact_dict[tag_value], <<",">>), tags, op)

\* EndBlock that looks for the "Tags" entry before it looks at the tag list
EndBlock_TagsFirst(s, line, tags, op) ==
    IF StartsWith(line, END_SYMBOL) /\ s.listening_to_data
    THEN IF "Tags" \notin DOMAIN s.contact_dict
         THEN [s EXCEPT !.listening_to_data = FALSE, !.cont = TRUE]
         ELSE IF Len(tags) > 0
              THEN FilterByTags(s, standard_field_dict[CATEGORIES], tags, op)
              ELSE [add_contact(s) EXCEPT !.cont = TRUE]
    ELSE s

\* EndBlock that stores a record without "Tags" entry
EndBlock_KeepUntagged(s, line, tags, op) ==
    IF StartsWith(line, END_SYMBOL) /\ s.listening_to_data
    THEN IF Len(tags) > 0 /\ "Tags" \in DOMAIN s.contact_dict
         THEN FilterByTags(s, standard_field_dict[CATEGORIES], tags, op)
         ELSE [add_contact(s) EXCEPT !.cont = TRUE]
    ELSE s

\* EndBlock without the test of listening_to_data
EndBlock_WhileIdle(s, line, tags, op) ==
    IF StartsWith(line, END_SYMBOL)
    THEN IF Len(tags) > 0
         THEN IF "Tags" \notin DOMAIN s.contact_dict
              THEN [s EXCEPT !.listening_to_data = FALSE, !.cont = TRUE]
              ELSE FilterByTags(s, standard_field_dict[CATEGORIES], tags, op)
         ELSE [add_contact(s) EXCEPT !.cont = TRUE]
    ELSE s

\* if line.startswith(END_SYMBOL) and listening_to_data: close the record
EndBlock(s, line, tags, op) ==
    IF StartsWith(line, END_SYMBOL) /\ s.listening_to_data
    THEN IF Len(tags) > 0
         THEN IF "Tags" \notin DOMAIN s.contact_dict
              THEN [s EXCEPT !.listening_to_data = FALSE, !.cont = TRUE]
              ELSE FilterByTags(s, standard_field_dict[CATEGORIES], tags, op)
         ELSE [add_contact(s) EXCEPT !.cont = TRUE]
    ELSE s

\* a name component is stored only if it is not empty
SetIfNonEmpty(d, name, v) == IF Len(v) > 0 THEN DictSet(d, name, v) ELSE d

\* the four name components, in the order the source stores them
NameFields(s, parts) ==
    IF Len(parts) < 4
    THEN [s EXCEPT !.err = TRUE]
    ELSE [s EXCEPT !.contact_dict =
             SetIfNonEmpty(
               SetIfNonEmpty(
                 SetIfNonEmpty(
                   SetIfNonEmpty(@, "Last Name", parts[1]),
                   "First Name", parts[2]),
                 "Middle Name 1", parts[3]),
               "Middle Name 2", parts[4])]

\* the name components of the record-start line
NameBlock(s, line) ==
    IF StartsWith(line, BEGIN_SYMBOL)
    THEN NameFields(s, Split(Last(Split(line, <<":">>)), <<";">>))
    ELSE s

\* Disambiguate that leaves the first value under the bare name
Disambiguate_NoArchive(d, v, count) ==
    IF count > 1
    THEN [err |-> FALSE, contact_dict |-> d, value |-> v \o "_" \o ToString(count)]
    ELSE [err |-> FALSE, contact_dict |-> d, value |-> v]

\* the destination name of the count-th occurrence of the field named v, and
\* the record after the archiving done at the second occurrence
Disambiguate(d, v, count) ==
    IF count > 1
    THEN IF count = 2
         THEN IF v \in DOMAIN d
              THEN [err |-> FALSE,
                    contact_dict |-> DictSet(DictDel(d, v), v \o "_1", d[v]),
                    value |-> v \o "_" \o ToString(count)]
              ELSE [err |-> TRUE, contact_dict |-> d, value |-> v]
         ELSE [err |-> FALSE, contact_dict |-> d,
               value |-> v \o "_" \o ToString(count)]
    ELSE [err |-> FALSE, contact_dict |-> d, value |-> v]

\* the translation of a note line: non-printing characters removed, the
\* two-character escape \n turned into a line break, backslashes removed
TranslateNote(data) ==
    Replace(Replace(Replace(Replace(data, <<NBSP>>, << >>), <<ZWSP>>, << >>),
                    <<"\\", "n">>, <<"\n">>),
            <<"\\">>, << >>)

\* FormatBirthday that takes the day from the fifth and sixth characters
FormatBirthday_DayByPosition(data) ==
    IF StartsWith(data, <<"-", "-">>)
    THEN Slice(data, 2, 4) \o <<"-">> \o Slice(data, 4, 6)
    ELSE SliceTo(data, -4) \o <<"-">> \o Slice(data, -4, -2) \o <<"-">>
         \o SliceFrom(data, -2)

\* the reformatting of a birthday value
FormatBirthday(data) ==
    IF StartsWith(data, <<"-", "-">>)
    THEN Slice(data, 2, 4) \o <<"-">> \o SliceFrom(data, -2)
    ELSE SliceTo(data, -4) \o <<"-">> \o Slice(data, -4, -2) \o <<"-">>
         \o SliceFrom(data, -2)

\* the text of a standard field line after the key (note) or the last colon
AfterKey(k, line) ==
    IF k = NOTE THEN Last(Split(line, NOTE \o <<":">>))
    ELSE Last(Split(line, <<":">>))

\* a leading ;; is dropped
StripLeadingSemicolons(data) ==
    IF StartsWith(data, <<";", ";">>) THEN SliceFrom(data, 2) ELSE data

\* outside notes: line breaks and backslashes removed, ;; and ; turned into ", "
ReplaceUnwanted(k, line, data) ==
    IF k # NOTE /\ line[1] # " "
    THEN Replace(Replace(Replace(Replace(data, <<"\n">>, << >>), <<"\\">>, << >>),
                         <<";", ";">>, <<",", " ">>),
                 <<";">>, <<",", " ">>)
    ELSE data

\* an address loses a leading ", "
StripAddress(k, data) ==
    IF k = ADR /\ StartsWith(data, <<",", " ">>) THEN SliceFrom(data, 2) ELSE data

\* the value of a standard field line, up to the field-specific decoding
RawStandardData(k, line) ==
    StripAddress(k, ReplaceUnwanted(k, line, StripLeadingSemicolons(AfterKey(k, line))))

\* a note line without the line break that ends it, when the line is no
\* longer than the fold threshold
StripNoteLineBreak(data, fold) ==
    IF Len(data) - fold <= 0 /\ SliceFrom(data, -1) = <<"\n">>
    THEN SliceTo(data, -1)
    ELSE data

\* a note line, its line break already stripped: the text to store and the
\* last_symbol it leaves
DecodeNote(stripped) ==
    [data |-> TranslateNote(stripped), last_symbol |-> SliceFrom(stripped, -1)]

\* the field-specific decoding of a standard field value
DecodeStandard(k, data, last) ==
    IF k = NOTE THEN DecodeNote(StripNoteLineBreak(data, NotePrimaryFold))
    ELSE IF k = PHOTO THEN [data |-> Last(Split(data, <<",">>)), last_symbol |-> last]
    ELSE IF k = BDAY THEN [data |-> FormatBirthday(data), last_symbol |-> last]
    ELSE [data |-> data, last_symbol |-> last]

\* the decoded value of a standard field line and the last_symbol it leaves
StandardData(k, line, last) == DecodeStandard(k, RawStandardData(k, line), last)

\* contact_dict[value] = data; key_previous = key; value_previous = value
StoreField(s, k, dis, data) ==
    IF dis.err
    THEN [s EXCEPT !.key = k, !.err = TRUE]
    ELSE [s EXCEPT !.key = k,
                   !.value = dis.value,
                   !.contact_dict = DictSet(dis.contact_dict, dis.value, data),
                   !.key_previous = k,
                   !.value_previous = dis.value]

\* a standard field line whose text before the first : or ; is k
StandardField(s, line, k) ==
    IF k \notin DOMAIN standard_field_dict
    THEN [s EXCEPT !.key = k, !.err = TRUE]
    ELSE StoreField(
             [s EXCEPT !.standard_count = [@ EXCEPT ![k] = @ + 1],
                       !.last_symbol = StandardData(k, line, @).last_symbol],
             k,
             Disambiguate(s.contact_dict, standard_field_dict[k], s.standard_count[k] + 1),
             StandardData(k, line, s.last_symbol).data)

\* built-in fields
StandardBlock(s, line) ==
    IF s.err THEN s
    ELSE IF \E i \in 1..Len(standard_field_list) : StartsWith(line, standard_field_list[i])
    THEN StandardField(s, line, ReSplitFirst(line))
    ELSE s

\* the first custom field of the list that occurs in the line
FirstCustomField(line) ==
    custom_field_list[SetMin({i \in 1..Len(custom_field_list) :
                                Contains(line, custom_field_list[i])})]

\* a custom field line of key k
CustomField(s, line, k) ==
    StoreField([s EXCEPT !.custom_count = [@ EXCEPT ![k] = @ + 1]],
               k,
               Disambiguate(s.contact_dict, custom_field_dict[k], s.custom_count[k] + 1),
               Replace(Last(Split(line, CUSTOM_SEPARATOR)), <<"\n">>, << >>))

\* custom fields
CustomBlock(s, line) ==
    IF s.err THEN s
    ELSE IF Contains(line, X_CUSTOM)
            /\ \E i \in 1..Len(custom_field_list) : Contains(line, custom_field_list[i])
    THEN CustomField(s, line, FirstCustomField(line))
    ELSE s

\* the value of a social profile line whose last ;-segment is seg: the
\* segment without its label prefix and without line break
SocialData(seg) ==
    Replace(Replace(seg, Split(seg, <<":">>)[1] \o <<":">>, << >>), <<"\n">>, << >>)

\* a social profile line of key k, parts being line.split(';')
SocialField(s, parts, k) ==
    IF k \notin DOMAIN social_profile_field_dict
    THEN [s EXCEPT !.key = k, !.err = TRUE]
    ELSE StoreField([s EXCEPT !.social_count = [@ EXCEPT ![k] = @ + 1]],
                    k,
                    Disambiguate(s.contact_dict, social_profile_field_dict[k],
                                 s.social_count[k] + 1),
                    SocialData(Last(parts)))

\* the key of a social profile line: its TYPE= parameter
SocialKey(s, parts) ==
    IF Len(parts) < 2
    THEN [s EXCEPT !.err = TRUE]
    ELSE SocialField(s, parts, Replace(Split(parts[2], <<":">>)[1], TYPE_PARAM, << >>))

\* social profile fields
SocialBlock(s, line) ==
    IF s.err THEN s
    ELSE IF Contains(line, X_SOCIALPROFILE)
            /\ \E i \in 1..Len(social_profile_field_list) :
                   Contains(line, social_profile_field_list[i])
    THEN SocialKey(s, Split(line, <<";">>))
    ELSE s

\* RecreateLineBreak that puts the line break in the place of "n "
RecreateLineBreak_DropSpace(l, last) ==
    IF last = <<"\\">> /\ Slice(l, 0, 2) = <<"n", " ">>
    THEN <<"\n">> \o SliceFrom(l, 2)
    ELSE l

\* the line break cut in half by the fold is recreated
RecreateLineBreak(l, last) ==
    IF last = <<"\\">> /\ Slice(l, 0, 2) = <<"n", " ">>
    THEN <<"\n">> \o SliceFrom(l, 1)
    ELSE l

\* a continuation line of a note: the text to append and the last_symbol it
\* leaves
NoteContinuation(line, last) ==
    DecodeNote(RecreateLineBreak(
                   StripNoteLineBreak(SliceFrom(line, 1), NoteContinuationFold), last))

\* Foldable that lets every registered field go on on the next line
Foldable_AnyField(k) ==
    k \in DOMAIN standard_field_dict
    \/ InList(k, custom_field_list)
    \/ InList(k, social_profile_field_list)

\* the previous field is one whose value may go on on the next line
Foldable(k) ==
    k = ADR \/ k = NOTE \/ k = PHOTO \/ k = CATEGORIES
    \/ InList(k, social_profile_field_list)

\* lines 443-445: outside notes the leading space and the line break go
StripContinuation(k, l) ==
    IF k = ADR \/ k = PHOTO \/ k = CATEGORIES \/ InList(k, social_profile_field_list)
    THEN Replace(SliceFrom(l, 1), <<"\n">>, << >>)
    ELSE l

\* AppendLine that assigns the line instead of appending it
AppendLine_Overwrite(s, l) ==
    IF s.value_previous \notin DOMAIN s.contact_dict
    THEN [s EXCEPT !.err = TRUE]
    ELSE [s EXCEPT !.contact_dict = DictSet(@, s.value_previous, l)]

\* contact_dict[value_previous] = contact_dict[value_previous] + line
AppendLine(s, l) ==
    IF s.value_previous \notin DOMAIN s.contact_dict
    THEN [s EXCEPT !.err = TRUE]
    ELSE [s EXCEPT !.contact_dict =
                      DictSet(@, s.value_previous, @[s.value_previous] \o l)]

\* unfinished lines
ContinuationBlock(s, line) ==
    IF s.err THEN s
    ELSE IF Foldable(s.key_previous) /\ line[1] = " "
    THEN IF s.key_previous = NOTE
         THEN AppendLine(
                  [s EXCEPT !.last_symbol = NoteContinuation(line, @).last_symbol],
                  StripContinuation(s.key_previous,
                                    NoteContinuation(line, s.last_symbol).data))
         ELSE AppendLine(s, StripContinuation(s.key_previous, line))
    ELSE s

\* the blocks under 'if listening_to_data:', each skipped once an exception
\* has been raised
FieldBlocks(s, line) ==
    ContinuationBlock(
        SocialBlock(CustomBlock(StandardBlock(NameBlock(s, line), line), line), line),
        line)

\* AfterEndBlock without the test of listening_to_data
AfterEndBlock_NoListeningTest(s, line) ==
    IF s.err \/ s.cont THEN s
    ELSE FieldBlocks(s, line)

\* the part of the loop body after the record-end block
AfterEndBlock(s, line) ==
    IF s.err \/ s.cont THEN s
    ELSE IF s.listening_to_data THEN FieldBlocks(s, line)
    ELSE s

\* a store entry that is the object contact_dict shows what the iteration
\* has written into contact_dict
SharedRecord(s) ==
    IF s.alias \in DOMAIN s.contacts_dict
    THEN [s EXCEPT !.contacts_dict = DictSet(@, s.alias, s.contact_dict)]
    ELSE s

\* one iteration of 'for line in vcf_'
LoopBody(s, line, tags, op) ==
    SharedRecord(AfterEndBlock(EndBlock(BeginBlock(s, line), line, tags, op), line))

(***************************************************************************)
(* The program as a state machine: one step reads the next line of the     *)
(* file and runs the loop body on it; the last step is the end of file.    *)
(***************************************************************************)

\* the state before the first line is read, for arguments drawn from the
\* given sets
InitWith(TagLists, Ops) ==
    /\ contacts_dict = EmptyDict
    /\ contact_id = 0
    /\ listening_to_data = FALSE
    /\ contact_dict = EmptyDict
    /\ alias = -1
    /\ key = BEGIN_SYMBOL
    /\ key_previous = BEGIN_SYMBOL
    /\ value = "Name"
    /\ value_previous = "Name"
    /\ last_symbol = << >>
    /\ standard_count = [k \in DOMAIN standard_field_dict |-> 0]
    /\ custom_count = [k \in DOMAIN custom_field_dict |-> 0]
    /\ social_count = [k \in DOMAIN social_profile_field_dict |-> 0]
    /\ tag_list \in TagLists
    /\ logic_op \in Ops
    /\ vcf = << >>
    /\ decimal = 0
    /\ excel_base_26 = << >>
    /\ pc = "reading"

\* the locals after an iteration of the loop
Assign(s) ==
    /\ pc' = IF s.err THEN "crashed" ELSE "reading"
    /\ contacts_dict' = s.contacts_dict
    /\ contact_id' = s.contact_id
    /\ listening_to_data' = s.listening_to_data
    /\ contact_dict' = s.contact_dict
    /\ alias' = s.alias
    /\ key' = s.key
    /\ key_previous' = s.key_previous
    /\ value' = s.value
    /\ value_previous' = s.value_previous
    /\ last_symbol' = s.last_symbol
    /\ standard_count' = s.standard_count
    /\ custom_count' = s.custom_count
    /\ social_count' = s.social_count

\* the loop reads one more line, drawn from LineSet, of a file of at most
\* MaxLen lines
ReadLine(LineSet, MaxLen) ==
    /\ pc = "reading"
    /\ Len(vcf) < MaxLen
    /\ \E line \in LineSet :
          /\ vcf' = Append(vcf, line)
          /\ Assign(LoopBody(Locals, line, tag_list, logic_op))
    /\ UNCHANGED <<tag_list, logic_op, decimal, excel_base_26>>

\* the file is exhausted: the loop ends
EndOfInput ==
    /\ pc = "reading"
    /\ pc' = "done"
    /\ UNCHANGED <<contacts_dict, contact_id, listening_to_data, contact_dict, alias, key,
                   key_previous, value, value_previous, last_symbol, standard_count,
                   custom_count, social_count, tag_list, logic_op, vcf, decimal,
                   excel_base_26>>

(***************************************************************************)
(* Inputs of the tag filtering specification                               *)
(***************************************************************************)

L_N == <<"N", ":", "D", "o", "e", ";", "J", "o", "h", "n", ";", ";", ";", "\n">>
L_END == <<"E", "N", "D", ":", "V", "C", "A", "R", "D", "\n">>
L_CAT_ABC == <<"C", "A", "T", "E", "G", "O", "R", "I", "E", "S", ":", "A", ",", "B", ",", "C", "\n">>
L_CAT_bB == <<"C", "A", "T", "E", "G", "O", "R", "I", "E", "S", ":", "b", ",", " ", "B", "\n">>
L_CONT_D == <<" ", ",", "D", "\n">>

TAG_B == <<"B">>
TAG_D == <<"D">>

TagLines == {L_N, L_END, L_CAT_ABC, L_CAT_bB, L_CONT_D}

TagLists == {<< >>, <<TAG_B>>, <<TAG_B, TAG_D>>}

\* "&" and "|" are the documented operators; args.logic_op is any string
LogicOps == {"&", "|", "^"}

MaxLines == 5

Init == InitWith(TagLists, LogicOps)

Next == ReadLine(TagLines, MaxLines) \/ EndOfInput

Spec == Init /\ [][Next]_vars

(***************************************************************************)
(* Inputs of the repeated fields specification: a standard field in two    *)
(* spellings, a custom field and a social profile field, no tag requested  *)
(***************************************************************************)

L_TEL1 == <<"T", "E", "L", ":", "1", "\n">>
L_TEL2 == <<"T", "E", "L", ";", "t", "y", "p", "e", "=", "C", "E", "L", "L", ":", "2", "\n">>
L_CUSTOM == <<"X", "-", "C", "U", "S", "T", "O", "M", ":", "N", "a", "t", "i", "o", "n", "a", "l", "i", "t", "y", "-", "=", "+", "=", "-", "C", "H", "\n">>
L_SOCIAL == <<"X", "-", "S", "O", "C", "I", "A", "L", "P", "R", "O", "F", "I", "L", "E", ";", "T", "Y", "P", "E", "=", "t", "w", "i", "t", "t", "e", "r", ":", "@", "d", "o", "e", "\n">>

FieldLines == {L_N, L_END, L_TEL1, L_TEL2, L_CUSTOM, L_SOCIAL}

MaxFieldLines == 5

InitFields == InitWith({<< >>}, {"|"})

NextFields == ReadLine(FieldLines, MaxFieldLines) \/ EndOfInput

SpecFields == InitFields /\ [][NextFields]_vars

(***************************************************************************)
(* Inputs of the note specification: a note ending with a backslash, a     *)
(* note holding an escaped line break, and two continuation lines          *)
(***************************************************************************)

L_NOTE_HELLO == <<"N", "O", "T", "E", ":", "H", "e", "l", "l", "o", " ", "\\", "\n">>
L_NOTE_HI == <<"N", "O", "T", "E", ":", "H", "i", "\\", "n", "y", "o", "u", "\n">>
L_CONT_WORLD == <<" ", "n", " ", "w", "o", "r", "l", "d", "\n">>
L_CONT_THERE == <<" ", "t", "h", "e", "r", "e", "\n">>

NoteLines == {L_N, L_END, L_NOTE_HELLO, L_NOTE_HI, L_CONT_WORLD, L_CONT_THERE}

MaxNoteLines == 5

InitNote == InitWith({<< >>}, {"|"})

NextNote == ReadLine(NoteLines, MaxNoteLines) \/ EndOfInput

SpecNote == InitNote /\ [][NextNote]_vars

(***************************************************************************)
(* Inputs of the birthday specification: a birthday without year, with a   *)
(* four-digit year, with a two-digit year behind a parameter, and a value  *)
(* of two dashes and two digits                                            *)
(***************************************************************************)

L_BDAY_NOYEAR == <<"B", "D", "A", "Y", ":", "-", "-", "0", "6", "1", "5", "\n">>
L_BDAY_FULL == <<"B", "D", "A", "Y", ":", "1", "9", "9", "0", "0", "6", "1", "5", "\n">>
L_BDAY_SHORTYEAR == <<"B", "D", "A", "Y", ";", "V", "A", "L", "U", "E", "=", "d", "a", "t", "e", ":", "9", "0", "0", "6", "1", "5", "\n">>
L_BDAY_MONTH == <<"B", "D", "A", "Y", ":", "-", "-", "1", "2", "\n">>

BdayLines == {L_N, L_END, L_BDAY_NOYEAR, L_BDAY_FULL, L_BDAY_SHORTYEAR, L_BDAY_MONTH}

MaxBdayLines == 4

InitBday == InitWith({<< >>}, {"|"})

NextBday == ReadLine(BdayLines, MaxBdayLines) \/ EndOfInput

SpecBday == InitBday /\ [][NextBday]_vars

(***************************************************************************)
(* Inputs of the anomalies specification: a record-start line with two     *)
(* name components, a line that begins with a standard key without being   *)
(* one, a social profile line of an unregistered type, a social profile    *)
(* line behind a leading space, a standard field line that holds a custom  *)
(* field, and a line no rule matches                                       *)
(***************************************************************************)

L_N_SHORT == <<"N", ":", "D", "o", "e", ";", "J", "o", "h", "n", "\n">>
L_TELEX == <<"T", "E", "L", "E", "X", ":", "1", "\n">>
L_SOCIAL_FB == <<"X", "-", "S", "O", "C", "I", "A", "L", "P", "R", "O", "F", "I", "L", "E", ";", "T", "Y", "P", "E", "=", "f", "a", "c", "e", "b", "o", "o", "k", ":", "t", "w", "i", "t", "t", "e", "r", ".", "c", "o", "m", "/", "d", "o", "e", "\n">>
L_SP_SOCIAL == <<" ", "X", "-", "S", "O", "C", "I", "A", "L", "P", "R", "O", "F", "I", "L", "E", ";", "T", "Y", "P", "E", "=", "t", "w", "i", "t", "t", "e", "r", ":", "@", "d", "o", "e", "\n">>
L_TEL_CUSTOM == <<"T", "E", "L", ":", "X", "-", "C", "U", "S", "T", "O", "M", " ", "N", "a", "t", "i", "o", "n", "a", "l", "i", "t", "y", "-", "=", "+", "=", "-", "C", "H", "\n">>
L_VERSION == <<"V", "E", "R", "S", "I", "O", "N", ":", "3", ".", "0", "\n">>

AnomalyLines ==
    {L_N, L_END, L_N_SHORT, L_TELEX, L_SOCIAL_FB, L_SP_SOCIAL, L_TEL_CUSTOM, L_VERSION}

MaxAnomalyLines == 4

InitAnomaly == InitWith({<< >>}, {"|"})

NextAnomaly == ReadLine(AnomalyLines, MaxAnomalyLines) \/ EndOfInput

SpecAnomaly == InitAnomaly /\ [][NextAnomaly]_vars

(***************************************************************************)
(* Inputs of the continuation specification: an address and a continuation *)
(* line for it, a phone, a custom field, a social profile field, and a     *)
(* line no rule matches                                                    *)
(***************************************************************************)

L_ADR == <<"A", "D", "R", ":", ";", ";", "M", "a", "i", "n", " ", "S", "t", ";", "B", "e", "r", "n", "\n">>
L_CONT_ADR == <<" ", ";", "C", "H", "\n">>

ContLines == {L_N, L_END, L_ADR, L_CONT_ADR, L_TEL1, L_CUSTOM, L_SOCIAL, L_VERSION}

MaxContLines == 4

InitCont == InitWith({<< >>}, {"|"})

NextCont == ReadLine(ContLines, MaxContLines) \/ EndOfInput

SpecCont == InitCont /\ [][NextCont]_vars

(***************************************************************************)
(* decimalToExcelBase26: the conversion of a column number to column       *)
(* letters, called once the workbook exists                                *)
(***************************************************************************)

LETTERS ==
    <<"A", "B", "C", "D", "E", "F", "G", "H", "I", "J", "K", "L", "M",
      "N", "O", "P", "Q", "R", "S", "T", "U", "V", "W", "X", "Y", "Z">>

\* conversion_table: remainder -> letter, for the remainders 1 .. 26
conversion_table == [r \in 1..Len(LETTERS) |-> LETTERS[r]]

\* the while loop: err when conversion_table has no entry for the remainder
RECURSIVE ExcelLoop(_, _)
ExcelLoop(d, acc) ==
    IF d > 0
    THEN IF (d % 26) \in DOMAIN conversion_table
         THEN ExcelLoop(d \div 26, <<conversion_table[d % 26]>> \o acc)
         ELSE [err |-> TRUE, excel_base_26 |-> acc]
    ELSE [err |-> FALSE, excel_base_26 |-> acc]

\* decimalToExcelBase26(decimal)
decimalToExcelBase26(d) == ExcelLoop(d, << >>)

\* largest argument
MaxDecimal == 120

\* the state before the call, for an argument between 1 and MaxDecimal; the
\* locals of the parse are those of an empty file
InitExcel ==
    /\ contacts_dict = EmptyDict
    /\ contact_id = 0
    /\ listening_to_data = FALSE
    /\ contact_dict = EmptyDict
    /\ alias = -1
    /\ key = BEGIN_SYMBOL
    /\ key_previous = BEGIN_SYMBOL
    /\ value = "Name"
    /\ value_previous = "Name"
    /\ last_symbol = << >>
    /\ standard_count = [k \in DOMAIN standard_field_dict |-> 0]
    /\ custom_count = [k \in DOMAIN custom_field_dict |-> 0]
    /\ social_count = [k \in DOMAIN social_profile_field_dict |-> 0]
    /\ tag_list = << >>
    /\ logic_op = "|"
    /\ vcf = << >>
    /\ decimal \in 1..MaxDecimal
    /\ excel_base_26 = << >>
    /\ pc = "calling"

\* the call returns, or raises
CallExcel ==
    /\ pc = "calling"
    /\ pc' = IF decimalToExcelBase26(decimal).err THEN "crashed" ELSE "returned"
    /\ excel_base_26' = decimalToExcelBase26(decimal).excel_base_26
    /\ UNCHANGED <<contacts_dict, contact_id, listening_to_data, contact_dict, alias,
                   key, key_previous, value, value_previous, last_symbol,
                   standard_count, custom_count, social_count, tag_list, logic_op,
                   vcf, decimal>>

NextExcel == CallExcel

SpecExcel == InitExcel /\ [][NextExcel]_vars

(***************************************************************************)
(* Notions the properties are stated with.  They are defined on the input  *)
(* read so far and on sets, independently of the operators of the loop.    *)
(***************************************************************************)

\* the step reads a line
Reading == Len(vcf') = Len(vcf) + 1

\* the line the step reads
LineRead == vcf'[Len(vcf')]

\* the step reads a record-end line while a record is open
ReadsEndOfOpenRecord ==
    Reading /\ listening_to_data /\ StartsWith(LineRead, END_SYMBOL)

\* the step appends the record in progress to the store under the next
\* identifier
Stores ==
    /\ contact_id' = contact_id + 1
    /\ DOMAIN contacts_dict' = DOMAIN contacts_dict \cup {contact_id}
    /\ contacts_dict'[contact_id] = contact_dict
    /\ \A i \in DOMAIN contacts_dict : contacts_dict'[i] = contacts_dict[i]

\* the step leaves the store and the next identifier alone
StoreUnchanged == contacts_dict' = contacts_dict /\ contact_id' = contact_id

\* position of the last record-start line of the input f, 0 if there is none
LastStart(f) ==
    IF \E i \in 1..Len(f) : StartsWith(f[i], BEGIN_SYMBOL)
    THEN CHOOSE i \in 1..Len(f) :
             /\ StartsWith(f[i], BEGIN_SYMBOL)
             /\ \A j \in (i + 1)..Len(f) : ~StartsWith(f[j], BEGIN_SYMBOL)
    ELSE 0

\* the lines read since the last record-start line
CurrentRecordLines == SubSeq(vcf, LastStart(vcf) + 1, Len(vcf))

\* the line is a tags (CATEGORIES) line
IsTagsLine(l) == StartsWith(l, CATEGORIES)

\* the tags present in the text v: its maximal comma-free segments
PresentTags(v) ==
    {SubSeq(v, p[1], p[2]) :
        p \in {q \in (1..(Len(v) + 1)) \X (0..Len(v)) :
                 /\ q[1] <= q[2] + 1
                 /\ (q[1] = 1 \/ v[q[1] - 1] = ",")
                 /\ (q[2] = Len(v) \/ v[q[2] + 1] = ",")
                 /\ \A i \in q[1]..q[2] : v[i] # ","}}

\* the requested tags as a set
RequestedTags == {tag_list[i] : i \in 1..Len(tag_list)}

\* the Tag Filter predicate on a set of present tags
Accepts(present) ==
    IF logic_op = "&" THEN RequestedTags \subseteq present
    ELSE RequestedTags \cap present # {}

TEXT_ABC == <<"A", ",", "B", ",", "C">>

(***************************************************************************)
(* C1 - At the record-end line of an open record that has a tags field,    *)
(* with a non-empty requested tag set and operator & or |, the record is   *)
(* stored iff all (&) / at least one (|) of the requested tags are exactly *)
(* among the comma-separated elements of the tags value; otherwise the     *)
(* store is unchanged.  Tags A,B,C with requested {B, D}: stored under |,  *)
(* not stored under &.                                                     *)
(***************************************************************************)
C1_TagFilter ==
    [][ (/\ ReadsEndOfOpenRecord
         /\ "Tags" \in DOMAIN contact_dict
         /\ tag_list # << >>
         /\ logic_op \in {"&", "|"})
        => /\ IF Accepts(PresentTags(contact_dict["Tags"]))
              THEN Stores ELSE StoreUnchanged
           /\ (contact_dict["Tags"] = TEXT_ABC /\ tag_list = <<TAG_B, TAG_D>>)
              => IF logic_op = "|" THEN Stores ELSE StoreUnchanged ]_vars

\* a record with tags A,B,C has been stored for the request {B, D} under |
C1_Witness ==
    /\ tag_list = <<TAG_B, TAG_D>>
    /\ logic_op = "|"
    /\ contact_id = 1
    /\ "Tags" \in DOMAIN contacts_dict[0]
    /\ contacts_dict[0]["Tags"] = TEXT_ABC

(***************************************************************************)
(* C2 - With an empty requested tag set, every record-end line read while  *)
(* a record is open appends the record to the store, whatever the          *)
(* operator, with or without tags field.                                   *)
(***************************************************************************)
C2_NoTagsRequested ==
    [][ (ReadsEndOfOpenRecord /\ tag_list = << >>) => Stores ]_vars

\* a record without tags field has been stored under an operator that is
\* neither & nor |
C2_Witness ==
    /\ tag_list = << >>
    /\ logic_op = "^"
    /\ contact_id = 1
    /\ "Tags" \notin DOMAIN contacts_dict[0]

(***************************************************************************)
(* C3 - With a non-empty requested tag set, the record-end line of an open *)
(* record that has no tags line discards the record: store and next        *)
(* identifier unchanged, assembler Idle, no failure; and the records that  *)
(* follow are evaluated as if the discarded record had not been there, so  *)
(* an input of two records whose first has no tags line ends with at most  *)
(* one stored entry.                                                       *)
(***************************************************************************)

\* the input starts with a record without tags line that ends at line e
FirstRecordUntaggedEndsAt(e) ==
    /\ e \in 2..Len(vcf)
    /\ StartsWith(vcf[1], BEGIN_SYMBOL)
    /\ StartsWith(vcf[e], END_SYMBOL)
    /\ \A j \in 2..(e - 1) :
          /\ ~StartsWith(vcf[j], BEGIN_SYMBOL)
          /\ ~StartsWith(vcf[j], END_SYMBOL)
          /\ ~IsTagsLine(vcf[j])

\* the locals before the first line
InitialLocals ==
    [contacts_dict |-> EmptyDict, contact_id |-> 0, listening_to_data |-> FALSE,
     contact_dict |-> EmptyDict, alias |-> -1,
     key |-> BEGIN_SYMBOL, key_previous |-> BEGIN_SYMBOL,
     value |-> "Name", value_previous |-> "Name", last_symbol |-> << >>,
     standard_count |-> [k \in DOMAIN standard_field_dict |-> 0],
     custom_count |-> [k \in DOMAIN custom_field_dict |-> 0],
     social_count |-> [k \in DOMAIN social_profile_field_dict |-> 0],
     err |-> FALSE, cont |-> FALSE]

\* the locals after the whole loop over the file f, started from s
RECURSIVE RunFile(_, _)
RunFile(s, f) ==
    IF f = << >> \/ s.err THEN s
    ELSE RunFile([LoopBody(s, Head(f), tag_list, logic_op) EXCEPT !.cont = FALSE],
                 Tail(f))

C3_UntaggedDiscarded ==
    /\ [][ (/\ ReadsEndOfOpenRecord
            /\ tag_list # << >>
            /\ \A j \in 1..Len(CurrentRecordLines) : ~IsTagsLine(CurrentRecordLines[j]))
           => /\ StoreUnchanged
              /\ listening_to_data' = FALSE
              /\ pc' = "reading" ]_vars
    /\ [](\A e \in 1..Len(vcf) :
            (tag_list # << >> /\ FirstRecordUntaggedEndsAt(e))
            => /\ contacts_dict =
                     RunFile(InitialLocals, SubSeq(vcf, e + 1, Len(vcf))).contacts_dict
               /\ contact_id =
                     RunFile(InitialLocals, SubSeq(vcf, e + 1, Len(vcf))).contact_id
               /\ (Cardinality({j \in 1..Len(vcf) : StartsWith(vcf[j], BEGIN_SYMBOL)}) = 2
                   => contact_id <= 1))

\* two records read with a tag requested: the first, without tags line, was
\* discarded, the second was accepted
C3_Witness ==
    /\ tag_list # << >>
    /\ FirstRecordUntaggedEndsAt(2)
    /\ Len(vcf) = 5
    /\ StartsWith(vcf[3], BEGIN_SYMBOL)
    /\ ~listening_to_data
    /\ contact_id = 1

(***************************************************************************)
(* C4 - The identifiers of the store are exactly 0..n-1; a step either     *)
(* leaves store and next identifier alone, or it is the record-end line of *)
(* an open record and appends that record under the next identifier, the   *)
(* earlier entries untouched; so entry i is the (i+1)-th accepted record   *)
(* and rejected or discarded records take no identifier.                   *)
(***************************************************************************)
C4_DenseIdentifiers ==
    /\ [](DOMAIN contacts_dict = 0..(contact_id - 1))
    /\ [][ StoreUnchanged \/ (ReadsEndOfOpenRecord /\ Stores) ]_vars

\* a record was accepted after an earlier one had been discarded, and it has
\* identifier 0
C4_Witness ==
    /\ Len(vcf) = 5
    /\ tag_list # << >>
    /\ StartsWith(vcf[2], END_SYMBOL)
    /\ StartsWith(vcf[5], END_SYMBOL)
    /\ DOMAIN contacts_dict = {0}
    /\ contact_id = 1

(***************************************************************************)
(* C5 - At end of input the number of identifiers issued equals the number *)
(* of records of the input (a record-start line whose next marker line is  *)
(* a record-end line) that satisfy the Tag Filter predicate evaluated      *)
(* independently on the record's tags: the requested set is empty, or the  *)
(* record has a tags line and the tags of its tags field (the field as     *)
(* last given, with its continuation lines) satisfy the AND/OR predicate.  *)
(***************************************************************************)

\* the line is a record-start or a record-end line
IsMarker(l) == StartsWith(l, BEGIN_SYMBOL) \/ StartsWith(l, END_SYMBOL)

\* the record that starts at line i of the input is closed at line e
RecordSpan(i, e) ==
    /\ i \in 1..Len(vcf)
    /\ e \in (i + 1)..Len(vcf)
    /\ StartsWith(vcf[i], BEGIN_SYMBOL)
    /\ StartsWith(vcf[e], END_SYMBOL)
    /\ \A j \in (i + 1)..(e - 1) : ~IsMarker(vcf[j])

\* the text of the continuation lines that follow line j of the record body
RECURSIVE ContinuationText(_, _)
ContinuationText(body, j) ==
    IF j <= Len(body) /\ body[j][1] = " "
    THEN SubSeq(body[j], 2, Len(body[j]) - 1) \o ContinuationText(body, j + 1)
    ELSE << >>

\* the tags text of a record body that has a tags line: the payload of its
\* last tags line and of the continuation lines behind it
TagsText(body) ==
    LET t == CHOOSE j \in 1..Len(body) :
                 /\ IsTagsLine(body[j])
                 /\ \A m \in (j + 1)..Len(body) : ~IsTagsLine(body[m])
    IN  SubSeq(body[t], Len(CATEGORIES) + 2, Len(body[t]) - 1)
        \o ContinuationText(body, t + 1)

\* the record body satisfies the Tag Filter
Satisfies(body) ==
    \/ tag_list = << >>
    \/ /\ \E j \in 1..Len(body) : IsTagsLine(body[j])
       /\ Accepts(PresentTags(TagsText(body)))

\* the records of the input that satisfy the Tag Filter, by their first line
SatisfyingRecords ==
    {i \in 1..Len(vcf) :
        \E e \in (i + 1)..Len(vcf) :
            RecordSpan(i, e) /\ Satisfies(SubSeq(vcf, i + 1, e - 1))}

C5_IssuedEqualsSatisfying ==
    (pc = "done" /\ (tag_list = << >> \/ logic_op \in {"&", "|"}))
    => contact_id = Cardinality(SatisfyingRecords)

(***************************************************************************)
(* Repeated fields: the fields of the input lines, stated on the lines     *)
(***************************************************************************)

\* the canonical name of the field a line of the repeated fields input
\* gives, "" for a line that gives none
FieldNameOf(l) ==
    IF StartsWith(l, TEL) THEN "Phone"
    ELSE IF StartsWith(l, X_CUSTOM) THEN "Nationality"
    ELSE IF StartsWith(l, X_SOCIALPROFILE) THEN "Twitter"
    ELSE ""

\* the value that line gives
FieldValueOf(l) ==
    IF l = L_TEL1 THEN <<"1">>
    ELSE IF l = L_TEL2 THEN <<"2">>
    ELSE IF l = L_CUSTOM THEN <<"C", "H">>
    ELSE <<"@", "d", "o", "e">>

FieldNames == {"Phone", "Nationality", "Twitter"}

\* positions, in the lines of the current record, of the occurrences of n
Occurrences(n) ==
    {j \in 1..Len(CurrentRecordLines) : FieldNameOf(CurrentRecordLines[j]) = n}

\* the value of the i-th occurrence of n in the current record
OccurrenceValue(n, i) ==
    FieldValueOf(CurrentRecordLines[
        CHOOSE j \in Occurrences(n) :
            Cardinality({m \in Occurrences(n) : m <= j}) = i])

\* n_i
Suffixed(n, i) == n \o "_" \o ToString(i)

\* the entries of the record in progress that belong to n
EntriesFor(n) ==
    {m \in DOMAIN contact_dict :
        m = n \/ \E i \in 1..(MaxFieldLines + 1) : m = Suffixed(n, i)}

(***************************************************************************)
(* C6 as claimed - a field that occurs k times in a record has k entries:  *)
(* the bare name holds the last value, _1 .. _(k-1) hold the earlier       *)
(* values, and there is no _k entry.                                       *)
(***************************************************************************)
C6_BareHoldsLast ==
    listening_to_data =>
        \A n \in FieldNames :
            LET k == Cardinality(Occurrences(n))
            IN  k >= 1 =>
                  /\ Cardinality(EntriesFor(n)) = k
                  /\ n \in DOMAIN contact_dict
                  /\ contact_dict[n] = OccurrenceValue(n, k)
                  /\ \A i \in 1..(k - 1) :
                        /\ Suffixed(n, i) \in DOMAIN contact_dict
                        /\ contact_dict[Suffixed(n, i)] = OccurrenceValue(n, i)
                  /\ Suffixed(n, k) \notin DOMAIN contact_dict

(***************************************************************************)
(* C6 as amended - a field that occurs k times in a record has exactly k   *)
(* entries: for k = 1 the bare name; for k >= 2 the names _1 .. _k, the    *)
(* i-th holding the i-th value, and no entry under the bare name.          *)
(***************************************************************************)
C6_Disambiguation ==
    listening_to_data =>
        \A n \in FieldNames :
            LET k == Cardinality(Occurrences(n))
            IN  /\ Cardinality(EntriesFor(n)) = k
                /\ k = 1 => (n \in DOMAIN contact_dict
                             /\ contact_dict[n] = OccurrenceValue(n, 1))
                /\ k >= 2 =>
                     /\ n \notin DOMAIN contact_dict
                     /\ \A i \in 1..k :
                           /\ Suffixed(n, i) \in DOMAIN contact_dict
                           /\ contact_dict[Suffixed(n, i)] = OccurrenceValue(n, i)

\* a record in which the phone field has occurred three times, the third
\* value being under Phone_3
C6_Witness ==
    /\ listening_to_data
    /\ Cardinality(Occurrences("Phone")) = 3
    /\ "Phone_3" \in DOMAIN contact_dict
    /\ Cardinality(Occurrences("Twitter")) = 1

(***************************************************************************)
(* C7 - Every record-start line leaves all counters of the three tables at *)
(* zero, and the first occurrence of a field in a record is stored under   *)
(* the bare canonical name, however often the field occurred in the        *)
(* records before.                                                         *)
(***************************************************************************)
C7_CountersReset ==
    [][ /\ (Reading /\ StartsWith(LineRead, BEGIN_SYMBOL))
           => /\ \A k \in DOMAIN standard_count' : standard_count'[k] = 0
              /\ \A k \in DOMAIN custom_count' : custom_count'[k] = 0
              /\ \A k \in DOMAIN social_count' : social_count'[k] = 0
        /\ (/\ Reading
            /\ listening_to_data
            /\ FieldNameOf(LineRead) # ""
            /\ Occurrences(FieldNameOf(LineRead)) = {})
           => /\ pc' = "reading"
              /\ FieldNameOf(LineRead) \in DOMAIN contact_dict'
              /\ contact_dict'[FieldNameOf(LineRead)] = FieldValueOf(LineRead)
              /\ value_previous' = FieldNameOf(LineRead) ]_vars

\* the first phone line of a record is under the bare name although the
\* record before, left unterminated, had two phone lines
C7_Witness ==
    /\ Len(vcf) = 5
    /\ vcf[1] = L_N /\ vcf[2] = L_TEL1 /\ vcf[3] = L_TEL2 /\ vcf[4] = L_N
    /\ vcf[5] = L_TEL1
    /\ "Phone" \in DOMAIN contact_dict
    /\ standard_count[TEL] = 1

(***************************************************************************)
(* Note folding                                                            *)
(***************************************************************************)

\* the last two lines read are the note line "Hello \" and the continuation
\* line " n world", in an open record
HelloWorldRead ==
    /\ listening_to_data
    /\ pc = "reading"
    /\ Len(vcf) >= 2
    /\ vcf[Len(vcf) - 1] = L_NOTE_HELLO
    /\ vcf[Len(vcf)] = L_CONT_WORLD

(***************************************************************************)
(* C8 as claimed - the note "Hello \" continued by "n world" is stored as  *)
(* "Hello ", a line break, "world".                                        *)
(***************************************************************************)
C8_FoldReplacesNSpace ==
    HelloWorldRead =>
        contact_dict[value_previous] =
            <<"H", "e", "l", "l", "o", " ", "\n", "w", "o", "r", "l", "d">>

(***************************************************************************)
(* C8 as amended - the note "Hello \" continued by "n world" is stored as  *)
(* "Hello ", a line break, " world": the line break takes the place of the *)
(* leading n alone, the space behind it is kept, and no backslash is left. *)
(* The same continuation line after a note line that does not end with a   *)
(* backslash is appended as it is, "n world".                              *)
(***************************************************************************)
C8_FoldReplacesN ==
    /\ [](HelloWorldRead =>
            contact_dict[value_previous] =
                <<"H", "e", "l", "l", "o", " ", "\n", " ", "w", "o", "r", "l", "d">>)
    /\ [][ (/\ Reading
            /\ listening_to_data
            /\ key_previous = NOTE
            /\ LineRead = L_CONT_WORLD)
           => /\ value_previous' = value_previous
              /\ contact_dict'[value_previous] =
                    contact_dict[value_previous]
                    \o (IF last_symbol = <<"\\">>
                        THEN <<"\n", " ", "w", "o", "r", "l", "d">>
                        ELSE <<"n", " ", "w", "o", "r", "l", "d">>) ]_vars

\* the folded note has been stored with its record
C8_Witness ==
    /\ vcf = <<L_N, L_NOTE_HELLO, L_CONT_WORLD, L_END>>
    /\ contact_id = 1
    /\ "Note" \in DOMAIN contacts_dict[0]
    /\ Len(contacts_dict[0]["Note"]) = 13

(***************************************************************************)
(* C9 - A birthday value that begins with two dashes is stored as the two  *)
(* characters behind the dashes, a dash, and the last two characters; any  *)
(* other value as all but its last four characters, a dash, the next two,  *)
(* a dash, the last two.  --0615 gives 06-15, 19900615 gives 1990-06-15.   *)
(***************************************************************************)

\* the birthday value a line of the birthday input carries
BirthdayValueOf(l) ==
    IF l = L_BDAY_NOYEAR THEN <<"-", "-", "0", "6", "1", "5">>
    ELSE IF l = L_BDAY_FULL THEN <<"1", "9", "9", "0", "0", "6", "1", "5">>
    ELSE IF l = L_BDAY_SHORTYEAR THEN <<"9", "0", "0", "6", "1", "5">>
    ELSE <<"-", "-", "1", "2">>

\* the claimed reformatting of a value v of at least four characters
ClaimedBirthday(v) ==
    IF v[1] = "-" /\ v[2] = "-"
    THEN <<v[3], v[4], "-", v[Len(v) - 1], v[Len(v)]>>
    ELSE [i \in 1..(Len(v) - 4) |-> v[i]]
         \o <<"-", v[Len(v) - 3], v[Len(v) - 2], "-", v[Len(v) - 1], v[Len(v)]>>

C9_BirthdayFormat ==
    [][ (Reading /\ listening_to_data /\ StartsWith(LineRead, BDAY))
        => /\ value' \in DOMAIN contact_dict'
           /\ contact_dict'[value'] = ClaimedBirthday(BirthdayValueOf(LineRead))
           /\ LineRead = L_BDAY_NOYEAR
              => contact_dict'[value'] = <<"0", "6", "-", "1", "5">>
           /\ LineRead = L_BDAY_FULL
              => contact_dict'[value'] =
                    <<"1", "9", "9", "0", "-", "0", "6", "-", "1", "5">> ]_vars

\* a record holding the birthdays of --0615 and of 19900615 has been stored
C9_Witness ==
    /\ vcf = <<L_N, L_BDAY_NOYEAR, L_BDAY_FULL, L_END>>
    /\ contact_id = 1
    /\ contacts_dict[0]["Birthday_1"] = <<"0", "6", "-", "1", "5">>
    /\ contacts_dict[0]["Birthday_2"] =
          <<"1", "9", "9", "0", "-", "0", "6", "-", "1", "5">>

(***************************************************************************)
(* C10 - A record reaches the store only at its own record-end line: the   *)
(* store changes only at a record-end line; a record-start line read while *)
(* a record is open replaces that record by one that holds nothing but the *)
(* new name fields, without failure; the end of input leaves the store as  *)
(* it is and is no failure, also while a record is open; so the number of  *)
(* stored records never exceeds the number of record-end lines read.       *)
(***************************************************************************)

NameFieldNames == {"Last Name", "First Name", "Middle Name 1", "Middle Name 2"}

C10_OnlyAtRecordEnd ==
    /\ [][ /\ (contacts_dict' # contacts_dict \/ contact_id' # contact_id)
              => ReadsEndOfOpenRecord
           /\ (Reading /\ listening_to_data /\ StartsWith(LineRead, BEGIN_SYMBOL))
              => /\ StoreUnchanged
                 /\ pc' = "reading"
                 /\ listening_to_data'
                 /\ DOMAIN contact_dict' \subseteq NameFieldNames
           /\ (pc = "reading" /\ pc' = "done")
              => /\ StoreUnchanged
                 /\ listening_to_data' = listening_to_data ]_vars
    /\ [](contact_id <= Cardinality({j \in 1..Len(vcf) : StartsWith(vcf[j], END_SYMBOL)}))

\* the input ended while the second record was open, after the first had
\* been interrupted by the second record-start line: nothing is stored
C10_Witness ==
    /\ pc = "done"
    /\ listening_to_data
    /\ Len(vcf) = 4
    /\ StartsWith(vcf[1], BEGIN_SYMBOL)
    /\ IsTagsLine(vcf[2])
    /\ StartsWith(vcf[3], BEGIN_SYMBOL)
    /\ IsTagsLine(vcf[4])
    /\ contact_id = 0
    /\ contacts_dict = EmptyDict

(***************************************************************************)
(* Name components, stated on the record-start line                        *)
(***************************************************************************)

\* the i-th name component of the record-start line l, empty when the line
\* does not give it
NameComponent(l, i) ==
    LET parts == Split(SubSeq(l, Len(BEGIN_SYMBOL) + 1, Len(l) - 1), <<";">>)
    IN  IF i <= Len(parts) THEN parts[i] ELSE << >>

\* the canonical name of the i-th name component
NameFieldName(i) ==
    IF i = 1 THEN "Last Name"
    ELSE IF i = 2 THEN "First Name"
    ELSE IF i = 3 THEN "Middle Name 1"
    ELSE "Middle Name 2"

(***************************************************************************)
(* C11 - Every record-start line, whichever of its name components are     *)
(* absent, opens a record without failure: afterwards the loop goes on, a  *)
(* record is open, and each of the four name components is a field of the  *)
(* record, with the component as value, iff it is non-empty; and with no   *)
(* tags requested the record-end line of an open record stores it.         *)
(***************************************************************************)
C11_AbsentNameComponents ==
    [][ /\ (Reading /\ StartsWith(LineRead, BEGIN_SYMBOL))
           => /\ pc' = "reading"
              /\ listening_to_data'
              /\ \A i \in 1..4 :
                    /\ (NameFieldName(i) \in DOMAIN contact_dict')
                       <=> (NameComponent(LineRead, i) # << >>)
                    /\ (NameFieldName(i) \in DOMAIN contact_dict')
                       => contact_dict'[NameFieldName(i)] = NameComponent(LineRead, i)
        /\ (ReadsEndOfOpenRecord /\ tag_list = << >>) => Stores ]_vars

(***************************************************************************)
(* C12 - No sequence of input lines aborts the parse: whatever lines have  *)
(* been read, the loop has not failed.                                     *)
(***************************************************************************)
C12_NeverAborts == pc # "crashed"

(***************************************************************************)
(* Line kinds, observed on a step                                          *)
(***************************************************************************)

\* the step counts an occurrence in the table with the counters c
Counts(c, d) == \E k \in DOMAIN c : d[k] > c[k]

\* the number of field kinds (standard, custom, social) the step writes
KindsWritten ==
    Cardinality({t \in {1, 2, 3} :
        \/ t = 1 /\ Counts(standard_count, standard_count')
        \/ t = 2 /\ Counts(custom_count, custom_count')
        \/ t = 3 /\ Counts(social_count, social_count')})

\* the step appends the line behind its leading space, as a continuation, to
\* the entry of the last processed field
AppendedAsContinuation ==
    /\ LineRead[1] = " "
    /\ value_previous' \in DOMAIN contact_dict'
    /\ LET text == SubSeq(LineRead, 2, Len(LineRead) - 1)
           entry == contact_dict'[value_previous']
       IN  /\ Len(entry) >= Len(text)
           /\ SubSeq(entry, Len(entry) - Len(text) + 1, Len(entry)) = text

(***************************************************************************)
(* C14 - Each line read while a record is open is processed as exactly one *)
(* line kind: no line writes values for two field kinds, and no line both  *)
(* stores a field value and is appended as a continuation.                 *)
(***************************************************************************)
C14_OneKindPerLine ==
    [][ (Reading /\ listening_to_data /\ pc' = "reading"
         /\ ~StartsWith(LineRead, BEGIN_SYMBOL))
        => /\ KindsWritten <= 1
           /\ ~(KindsWritten >= 1 /\ AppendedAsContinuation) ]_vars

(***************************************************************************)
(* C15 - With a non-empty requested tag set (operator & or |), an open     *)
(* record that has one or more tags lines is treated at its record-end     *)
(* line as carrying a tags field and is evaluated by the Tag Filter, for   *)
(* any number of tags lines: it is stored iff its tags (the field as last  *)
(* given, with its continuation lines) satisfy the predicate, and never    *)
(* discarded as lacking tags.                                              *)
(***************************************************************************)
C15_TaggedRecordsEvaluated ==
    [][ (/\ ReadsEndOfOpenRecord
         /\ tag_list # << >>
         /\ logic_op \in {"&", "|"}
         /\ \E j \in 1..Len(CurrentRecordLines) : IsTagsLine(CurrentRecordLines[j]))
        => IF Accepts(PresentTags(TagsText(CurrentRecordLines)))
           THEN Stores ELSE StoreUnchanged ]_vars

(***************************************************************************)
(* C20 - Every record-end line read while a record is open closes that     *)
(* record, for every requested tag set and every operator value:           *)
(* immediately afterwards no record is open, the record has either been    *)
(* appended to the store or left out of it, and the line has changed no    *)
(* field of the record.                                                    *)
(***************************************************************************)
C20_EndAlwaysCloses ==
    [][ ReadsEndOfOpenRecord
        => /\ ~listening_to_data'
           /\ Stores \/ StoreUnchanged
           /\ contact_dict' = contact_dict ]_vars

(***************************************************************************)
(* Line kinds, stated on the lines                                         *)
(***************************************************************************)

\* the line begins with a key of the standard table
IsStandardLine(l) == \E k \in DOMAIN standard_field_dict : StartsWith(l, k)

\* the line is a custom field line / a social profile field line
IsCustomLine(l) == Contains(l, X_CUSTOM)
IsSocialLine(l) == Contains(l, X_SOCIALPROFILE)

\* the line gives a field
IsFieldLine(l) == IsStandardLine(l) \/ IsCustomLine(l) \/ IsSocialLine(l)

\* the line is a continuation line: a leading space and no earlier rule
IsContinuationLine(l) == l[1] = " " /\ ~IsMarker(l) /\ ~IsFieldLine(l)

\* the line matches no rule
IsIgnoredLine(l) == l[1] # " " /\ ~IsMarker(l) /\ ~IsFieldLine(l)

\* what a continuation line outside notes contributes
ContinuationPayload(l) == SubSeq(l, 2, Len(l) - 1)

(***************************************************************************)
(* C16 - A continuation line extends only the field whose own line,        *)
(* possibly followed by other continuation lines, immediately precedes it: *)
(* a continuation line read right after an ignored line changes no field   *)
(* of the record.                                                          *)
(***************************************************************************)
C16_NothingAfterIgnoredLine ==
    [][ (/\ Reading
         /\ listening_to_data
         /\ IsContinuationLine(LineRead)
         /\ Len(vcf) >= 1
         /\ IsIgnoredLine(vcf[Len(vcf)]))
        => contact_dict' = contact_dict ]_vars

(***************************************************************************)
(* C17 - Address decoding applies to every contributing line, primary and  *)
(* continuation alike: no address entry of the record in progress holds a  *)
(* semicolon or a backslash.                                               *)
(***************************************************************************)
C17_AddressFullyDecoded ==
    \A n \in EntriesFor("Address") :
        \A i \in 1..Len(contact_dict[n]) : contact_dict[n][i] \notin {";", "\\"}

(***************************************************************************)
(* Last processed field, stated on the lines of the current record         *)
(***************************************************************************)

\* position of the last field line of the record body, 0 if there is none
LastFieldLine(body) ==
    IF \E j \in 1..Len(body) : IsFieldLine(body[j])
    THEN CHOOSE j \in 1..Len(body) :
             /\ IsFieldLine(body[j])
             /\ \A m \in (j + 1)..Len(body) : ~IsFieldLine(body[m])
    ELSE 0

\* the canonical name of a field line that may be continued, "" for any
\* other line
ContinuedName(l) ==
    IF IsSocialLine(l) THEN "Twitter"
    ELSE IF StartsWith(l, ADR) THEN "Address"
    ELSE IF StartsWith(l, NOTE) THEN "Note"
    ELSE IF StartsWith(l, PHOTO) THEN "Picture"
    ELSE IF StartsWith(l, CATEGORIES) THEN "Tags"
    ELSE ""

\* the canonical name of the last processed field of the current record if
\* that field may be continued, "" otherwise
LastContinuedName ==
    IF LastFieldLine(CurrentRecordLines) = 0 THEN ""
    ELSE ContinuedName(CurrentRecordLines[LastFieldLine(CurrentRecordLines)])

(***************************************************************************)
(* C19 - A continuation line read while a record is open is appended only  *)
(* when the last processed field of the record is address, note, photo,    *)
(* tags or a social profile field, and then to an entry of that field, no  *)
(* other entry changing; after any other field (another standard field, a  *)
(* custom field) or right after the record-start line the whole record is  *)
(* left unchanged.                                                         *)
(***************************************************************************)
C19_ContinuationTargets ==
    [][ (Reading /\ listening_to_data /\ IsContinuationLine(LineRead))
        => IF LastContinuedName # ""
           THEN \E n \in EntriesFor(LastContinuedName) :
                    contact_dict' =
                        [contact_dict EXCEPT ![n] = @ \o ContinuationPayload(LineRead)]
           ELSE contact_dict' = contact_dict ]_vars

\* the continuation line came after a phone that followed an address:
\* address and phone are as their own lines gave them
C19_Witness ==
    /\ vcf = <<L_N, L_ADR, L_TEL1, L_CONT_ADR>>
    /\ listening_to_data
    /\ contact_dict["Address"] =
           <<"M", "a", "i", "n", " ", "S", "t", ",", " ", "B", "e", "r", "n">>
    /\ contact_dict["Phone"] = <<"1">>

(***************************************************************************)
(* Repeated tags fields with continuation lines, stated on the lines       *)
(***************************************************************************)

\* positions of the tags lines of the current record
TagsOccurrences ==
    {j \in 1..Len(CurrentRecordLines) : IsTagsLine(CurrentRecordLines[j])}

\* what the continuation lines from line j of the body up to the next tags
\* line contribute
RECURSIVE ContinuationsUpToNext(_, _)
ContinuationsUpToNext(body, j) ==
    IF j > Len(body) \/ IsTagsLine(body[j]) THEN << >>
    ELSE (IF body[j][1] = " " THEN ContinuationPayload(body[j]) ELSE << >>)
         \o ContinuationsUpToNext(body, j + 1)

\* the value of the i-th tags occurrence of the current record: the payload
\* of its line and of the continuation lines that follow it
TagsOccurrenceValue(i) ==
    LET j == CHOOSE m \in TagsOccurrences :
                 Cardinality({q \in TagsOccurrences : q <= m}) = i
    IN  SubSeq(CurrentRecordLines[j], Len(CATEGORIES) + 2,
               Len(CurrentRecordLines[j]) - 1)
        \o ContinuationsUpToNext(CurrentRecordLines, j + 1)

(***************************************************************************)
(* C18 - No occurrence of a repeated field is lost or overwritten: in an   *)
(* open record whose tags field has occurred k times, k = 1 gives one      *)
(* entry under the bare name; k >= 2 gives exactly the entries _1 .. _k,   *)
(* the first value having moved from the bare name to _1; the i-th entry   *)
(* holds the value of the i-th occurrence followed by the continuation     *)
(* lines that came after that occurrence.                                  *)
(***************************************************************************)
C18_NoOccurrenceLost ==
    listening_to_data =>
        LET k == Cardinality(TagsOccurrences)
        IN  /\ k = 0 => EntriesFor("Tags") = {}
            /\ k = 1 => /\ EntriesFor("Tags") = {"Tags"}
                        /\ contact_dict["Tags"] = TagsOccurrenceValue(1)
            /\ k >= 2 => /\ EntriesFor("Tags") = {Suffixed("Tags", i) : i \in 1..k}
                         /\ \A i \in 1..k :
                               contact_dict[Suffixed("Tags", i)] = TagsOccurrenceValue(i)

\* two tags lines, each followed by a continuation line: both values are
\* kept, each with its own continuation
C18_Witness ==
    /\ vcf = <<L_N, L_CAT_ABC, L_CONT_D, L_CAT_bB, L_CONT_D>>
    /\ listening_to_data
    /\ DOMAIN contact_dict = {"Last Name", "First Name", "Tags_1", "Tags_2"}
    /\ contact_dict["Tags_1"] = <<"A", ",", "B", ",", "C", ",", "D">>
    /\ contact_dict["Tags_2"] = <<"b", ",", " ", "B", ",", "D">>

(***************************************************************************)
(* C21 - The store is append-only and stored records are immutable: a step *)
(* that changes the store reads the record-end line of an open record and  *)
(* adds exactly one entry; and whatever line a step reads (field,          *)
(* continuation, record-start or record-end), every entry the store had    *)
(* before the step is still there afterwards with the same fields and      *)
(* values.                                                                 *)
(***************************************************************************)
C21_AppendOnly ==
    [][ /\ (contacts_dict' # contacts_dict)
           => /\ ReadsEndOfOpenRecord
              /\ DOMAIN contacts_dict \subseteq DOMAIN contacts_dict'
              /\ Cardinality(DOMAIN contacts_dict') = Cardinality(DOMAIN contacts_dict) + 1
        /\ \A i \in DOMAIN contacts_dict :
              /\ i \in DOMAIN contacts_dict'
              /\ contacts_dict'[i] = contacts_dict[i] ]_vars

\* a record with one phone was stored; a phone line read while no record was
\* open and a record-start line came after it: the stored record is as its
\* own lines gave it
C21_Witness ==
    /\ vcf = <<L_N, L_TEL1, L_END, L_TEL2, L_N>>
    /\ DOMAIN contacts_dict = {0}
    /\ DOMAIN contacts_dict[0] = {"Last Name", "First Name", "Phone"}
    /\ contacts_dict[0]["Phone"] = <<"1">>
    /\ alias = -1

(***************************************************************************)
(* C22 - While no record is open (before the first record-start line, and  *)
(* between a closing record-end line and the next record-start line),      *)
(* every line other than a record-start line - record-end lines, field     *)
(* lines and continuation lines included - leaves the store, the next      *)
(* identifier, the occurrence counters and the listening flag unchanged.   *)
(***************************************************************************)
C22_IdleLinesChangeNothing ==
    [][ (Reading /\ ~listening_to_data /\ ~StartsWith(LineRead, BEGIN_SYMBOL))
        => /\ StoreUnchanged
           /\ standard_count' = standard_count
           /\ custom_count' = custom_count
           /\ social_count' = social_count
           /\ listening_to_data' = listening_to_data ]_vars

\* a record-end line was read before the first record, and a phone line
\* after the first record had been stored: one record is stored, none is
\* open, no phone has been counted
C22_Witness ==
    /\ vcf = <<L_END, L_N, L_END, L_TEL1>>
    /\ ~listening_to_data
    /\ contact_id = 1
    /\ DOMAIN contacts_dict = {0}
    /\ DOMAIN contacts_dict[0] = {"Last Name", "First Name"}
    /\ standard_count[TEL] = 0

(***************************************************************************)
(* A record run alone                                                      *)
(***************************************************************************)

\* the lines read from the last record-start line on
OwnLines == SubSeq(vcf, LastStart(vcf), Len(vcf))

\* the locals after a run, from fresh state, over those lines alone
OwnRun == RunFile(InitialLocals, OwnLines)

(***************************************************************************)
(* C23 - A record depends only on its own lines: whatever lines preceded   *)
(* its record-start line, the record in progress (and so the finished      *)
(* record) is the one a run from fresh state over the lines from that      *)
(* record-start line on produces, with the same listening flag and the     *)
(* same failure or success; no last-processed key, last-processed name or  *)
(* remembered note character of an earlier record enters it.               *)
(***************************************************************************)
C23_RecordFromOwnLines ==
    LastStart(vcf) > 0 =>
        /\ contact_dict = OwnRun.contact_dict
        /\ listening_to_data = OwnRun.listening_to_data
        /\ (pc = "crashed") <=> OwnRun.err

\* the first record's note ended with a backslash; the second record's note
\* does not, and its continuation line n world is appended as it is
C23_Witness ==
    /\ vcf = <<L_N, L_NOTE_HELLO, L_N, L_NOTE_HI, L_CONT_WORLD>>
    /\ listening_to_data
    /\ contact_dict["Note"] =
           <<"H", "i", "\n", "y", "o", "u", "n", " ", "w", "o", "r", "l", "d">>

(***************************************************************************)
(* Column letters, stated on the column number                             *)
(***************************************************************************)

\* the letters of column number d: A .. Z, AA .. AZ, BA ..
RECURSIVE ColumnLetters(_)
ColumnLetters(d) ==
    IF d = 0 THEN << >>
    ELSE ColumnLetters((d - 1) \div 26) \o <<LETTERS[((d - 1) % 26) + 1]>>

(***************************************************************************)
(* C24 - decimalToExcelBase26 returns, for every positive column number,   *)
(* the column letters of that column (1 -> A, 26 -> Z, 27 -> AA,           *)
(* 52 -> AZ) and never fails, multiples of 26 included.                    *)
(***************************************************************************)
C24_ColumnLetters ==
    (decimal > 0 /\ pc # "calling")
    => /\ pc = "returned"
       /\ excel_base_26 = ColumnLetters(decimal)
       /\ decimal = 1 => excel_base_26 = <<"A">>
       /\ decimal = 26 => excel_base_26 = <<"Z">>
       /\ decimal = 27 => excel_base_26 = <<"A", "A">>
       /\ decimal = 52 => excel_base_26 = <<"A", "Z">>

====
